---- MODULE Spec2Model ----
(***************************************************************************)
(* Model of sum_mm_fixed.py: the deterministic-identity and idempotent-    *)
(* replacement protocol of the "sum" workflow step over an RDF graph.      *)
(*                                                                         *)
(* A graph is a set of statements <<s, p, o>>.  A node is a record         *)
(* [k, n, v]: k is the kind of term ("iri", "bnode", "literal", "none"),   *)
(* n a fixed name part and v a sequence of character codes (identifiers)   *)
(* or a one-element sequence holding a number (numeric literals).          *)
(* Identifiers are sequences of character codes >= 1, so that sorting and  *)
(* concatenation are computed as the code computes them.                   *)
(***************************************************************************)
EXTENDS Integers, Sequences, FiniteSets

\* ---------------------------------------------------------------- bounds
MaxRuns == 2       \* invocations of run in one behaviour
MaxEdits == 1      \* statements the caller changes between invocations
MaxListLen == 3    \* length of the identifier lists given to the hash

\* ------------------------------------------------------------ vocabulary
Voc(name) == [k |-> "iri", n |-> name, v |-> <<>>]
Iri(chars) == [k |-> "iri", n |-> "", v |-> chars]
None == [k |-> "none", n |-> "", v |-> <<>>]

Unit(chars) == [k |-> "iri", n |-> "unit:", v |-> chars]

QuantityValue == Voc("qudt:QuantityValue")
MilliM == Unit(<<1>>)
Annotation == Voc("oa:Annotation")
errorReporting == Voc("ex:errorReporting")
TextualBody == Voc("oa:TextualBody")

\* Literal(lexical form / number, datatype)
NumLiteral(x) == [k |-> "literal", n |-> "number", v |-> <<x>>]
TextLiteral(text, detail) == [k |-> "literal", n |-> text, v |-> detail]
BNode(i) == [k |-> "bnode", n |-> "", v |-> <<i>>]

\* --------------------------------------------------------------- strings
\* Python's str comparison: lexicographic by code point, a proper prefix first.
StrLess(a, b) ==
    \E i \in 1..(Len(a) + 1) :
        /\ i <= Len(b)
        /\ \A j \in 1..(i - 1) : a[j] = b[j]
        /\ (i = Len(a) + 1 \/ a[i] < b[i])

RECURSIVE Insert(_, _)
Insert(x, s) ==
    IF s = <<>> THEN <<x>>
    ELSE IF StrLess(Head(s), x) THEN <<Head(s)>> \o Insert(x, Tail(s))
    ELSE <<x>> \o s

\* sorted left out: the inputs in discovery order.
unsorted(s) == s

RECURSIVE sorted(_)
sorted(s) == IF s = <<>> THEN <<>> ELSE Insert(Head(s), sorted(Tail(s)))

RECURSIVE join(_)
join(s) == IF s = <<>> THEN <<>> ELSE Head(s) \o join(Tail(s))

\* str(node) of an identifier node
Str(node) == node.v

\* ------------------------------------------------------- Identity Deriver
\* The string fed to the hash: activity IRI followed by the sorted inputs.
combined(activity_iri, input_iris) == activity_iri \o join(sorted(input_iris))

\* sha256(...).hexdigest()[:16], taken as collision-free on its argument: the
\* digest is a tagged copy of the argument (0 is no character code).
sha256_hex16(s) == <<0>> \o s

\* The default execution_hash="unknown" of _add_error: no digest equals it.
unknown == <<0, 0>>

create_execution_hash(activity_iri, input_iris) ==
    sha256_hex16(combined(activity_iri, input_iris))

create_deterministic_iri(prefix, execution_hash) ==
    [k |-> "iri", n |-> prefix, v |-> execution_hash]

\* ------------------------------------------------------------ graph engine
\* g.subjects(p, o), g.objects(s, p): pattern queries of the triple store.
subjects(g, p, o) == {t[1] : t \in {u \in g : u[2] = p /\ u[3] = o}}
objects(g, s, p) == {t[3] : t \in {u \in g : u[1] = s /\ u[2] = p}}

\* g.value(s, p) for every s of S: None when s has no p edge, otherwise any one
\* of its objects (the store's iteration order decides which).
value(g, S, p) ==
    {f \in [S -> {None} \cup UNION {objects(g, s, p) : s \in S}] :
        \A s \in S : IF objects(g, s, p) = {} THEN f[s] = None
                                               ELSE f[s] \in objects(g, s, p)}

\* The orders in which the store can yield the elements of S.
Orders(S) ==
    {f \in [1..Cardinality(S) -> S] : \A i, j \in DOMAIN f : f[i] = f[j] => i = j}

Range(f) == {f[i] : i \in DOMAIN f}
\* The last index instead of the first.
Max(S) == CHOOSE x \in S : \A y \in S : x >= y
Min(S) == CHOOSE x \in S : \A y \in S : x <= y

\* float(num): a literal with a numeric lexical form parses, anything else raises.
CanFloat(num) == num.k = "literal" /\ num.n = "number"
float(num) == num.v[1]

\* The total taken from the first value alone.
first_value(values) == IF values = <<>> THEN 0 ELSE Head(values)

\* sum(values), left to right.  Numeric values are integers here, so the
\* rounding of float addition is not modelled.
RECURSIVE sum(_)
sum(values) == IF values = <<>> THEN 0 ELSE Head(values) + sum(Tail(values))

\* --------------------------------------------------------- Mutation Guard
\* The guard finding only the statements that point at the entity.
cleanup_objects_only(g, result_iri) ==
    LET byObject == {t \in g : t[3] = result_iri}
    IN [g |-> g \ byObject, removed |-> byObject, count |-> Cardinality(byObject)]

\* The guard clearing the error annotation of the execution with the result.
cleanup_whole_execution(g, result_iri) ==
    LET ann_iri == create_deterministic_iri("errorAnn", result_iri.v)
        found == {t \in g : t[1] \in {result_iri, ann_iri}
                              \/ t[3] \in {result_iri, ann_iri}}
    IN [g |-> g \ found, removed |-> found, count |-> Cardinality(found)]

\* The guard finding only the statements the entity is the subject of.
cleanup_subjects_only(g, result_iri) ==
    LET bySubject == {t \in g : t[1] = result_iri}
    IN [g |-> g \ bySubject, removed |-> bySubject,
        count |-> Cardinality(bySubject)]

cleanup_previous_result(g, result_iri) ==
    LET bySubject == {t \in g : t[1] = result_iri}
        byObject == {t \in g : t[3] = result_iri}
    IN [g |-> g \ (bySubject \cup byObject),
        removed |-> bySubject \cup byObject,
        count |-> Cardinality(bySubject) + Cardinality(byObject)]

\* -------------------------------------------------------- Outcome Emitter
\* The emitter writing its target edges without looking at the activity.
error_statements_with_target(activity, message, code, execution_hash, body) ==
    LET ann_iri == create_deterministic_iri("errorAnn", execution_hash)
    IN {<<ann_iri, "rdf:type", Annotation>>,
        <<ann_iri, "oa:motivatedBy", errorReporting>>,
        <<ann_iri, "oa:hasBody", body>>,
        <<ann_iri, "oa:hasTarget", activity>>,
        <<ann_iri, "prov:wasGeneratedBy", activity>>,
        <<body, "rdf:type", TextualBody>>,
        <<body, "rdf:value", message>>}
       \cup (IF code # None THEN {<<body, "ex:errorCode", code>>} ELSE {})

\* The statements _add_error asserts; body is the fresh BNode().
error_statements(activity, message, code, execution_hash, body) ==
    LET ann_iri == create_deterministic_iri("errorAnn", execution_hash)
    IN {<<ann_iri, "rdf:type", Annotation>>,
        <<ann_iri, "oa:motivatedBy", errorReporting>>,
        <<ann_iri, "oa:hasBody", body>>}
       \cup (IF activity # None
              THEN {<<ann_iri, "oa:hasTarget", activity>>,
                    <<ann_iri, "prov:wasGeneratedBy", activity>>}
              ELSE {})
       \cup {<<body, "rdf:type", TextualBody>>,
             <<body, "rdf:value", message>>}
       \cup (IF code # None THEN {<<body, "ex:errorCode", code>>} ELSE {})

\* The emitter dropping the machine-readable code.
add_error_without_code(g, activity, message, code, execution_hash, body) ==
    g \cup error_statements(activity, message, None, execution_hash, body)

\* The emitter applying the Mutation Guard to the annotation before writing it.
add_error_replacing(g, activity, message, code, execution_hash, body) ==
    cleanup_previous_result(
        g, create_deterministic_iri("errorAnn", execution_hash)).g
    \cup error_statements(activity, message, code, execution_hash, body)

_add_error(g, activity, message, code, execution_hash, body) ==
    g \cup error_statements(activity, message, code, execution_hash, body)

\* -------------------------------------------------------- Step Controller
\* What one invocation leaves behind: the returned graph, the terminal state,
\* the error code (or "" in Done), the execution identity, the statements the
\* invocation asserted and removed, and the Mutation Guard's count.
Outcome(gout, state, code, execution_hash, written, removed, count) ==
    [g |-> gout, state |-> state, code |-> code, hash |-> execution_hash,
     written |-> written, removed |-> removed, count |-> count]

\* The failure written under the default identity of _add_error.
failed_with_default_hash(g, activity, message, code, execution_hash, body) ==
    Outcome(_add_error(g, activity, message, TextLiteral(code, <<>>),
                       unknown, body),
            "Error", code, unknown,
            error_statements(activity, message, TextLiteral(code, <<>>),
                             unknown, body),
            {}, 0)

Failed(g, activity, message, code, execution_hash, body) ==
    Outcome(_add_error(g, activity, message, TextLiteral(code, <<>>),
                       execution_hash, body),
            "Error", code, execution_hash,
            error_statements(activity, message, TextLiteral(code, <<>>),
                             execution_hash, body),
            {}, 0)

\* The resolver without its type check.
linked(g, activity) == subjects(g, "bfo:is_input_of", activity)

\* The qualifying inputs: linked by bfo:is_input_of and typed qudt:QuantityValue.
qualifying(g, activity) ==
    {qv \in subjects(g, "bfo:is_input_of", activity) :
        <<qv, "rdf:type", QuantityValue>> \in g}

\* The result written together with a re-asserted activity node.
result_with_activity(result_qv, total, unit_iri, activity, inputs) ==
    {<<result_qv, "rdf:type", QuantityValue>>,
     <<result_qv, "qudt:numericValue", NumLiteral(total)>>,
     <<result_qv, "qudt:unit", unit_iri>>,
     <<result_qv, "prov:wasGeneratedBy", activity>>,
     <<activity, "rdf:type", Voc("prov:Activity")>>}
    \cup {<<result_qv, "prov:wasDerivedFrom", inputs[i]>> : i \in DOMAIN inputs}

\* The result written as one more input of its own activity.
result_as_input(result_qv, total, unit_iri, activity, inputs) ==
    {<<result_qv, "rdf:type", QuantityValue>>,
     <<result_qv, "qudt:numericValue", NumLiteral(total)>>,
     <<result_qv, "qudt:unit", unit_iri>>,
     <<result_qv, "prov:wasGeneratedBy", activity>>,
     <<result_qv, "bfo:is_input_of", activity>>}
    \cup {<<result_qv, "prov:wasDerivedFrom", inputs[i]>> : i \in DOMAIN inputs}

\* The statements of the fresh result entity.
result_statements(result_qv, total, unit_iri, activity, inputs) ==
    {<<result_qv, "rdf:type", QuantityValue>>,
     <<result_qv, "qudt:numericValue", NumLiteral(total)>>,
     <<result_qv, "qudt:unit", unit_iri>>,
     <<result_qv, "prov:wasGeneratedBy", activity>>}
    \cup {<<result_qv, "prov:wasDerivedFrom", inputs[i]>> : i \in DOMAIN inputs}

\* The units set of run when its loop completes: the unit g.value returned for
\* each input that has one.
declared_units(inputs, unit) == {unit[inputs[i]] : i \in DOMAIN inputs} \ {None}

\* run(input_turtle, activity_iri).  g is the parsed input graph, or malformed
\* says that g.parse raised.  inputs is the list the store yields for the
\* qualifying inputs, num and unit what g.value returns for each of them,
\* unit_order the iteration order of the units set, body the fresh BNode().
run(g, malformed, activity_iri, inputs, num, unit, unit_order, body) ==
    IF malformed
    THEN Failed({}, None, TextLiteral("Failed to parse input graph", <<>>),
                "PARSE_ERROR", unknown, body)
    ELSE
    LET activity == Iri(activity_iri)
        execution_hash ==
            create_execution_hash(activity_iri,
                                  [i \in DOMAIN inputs |-> Str(inputs[i])])
        bad == {i \in DOMAIN inputs :
                    num[inputs[i]] = None \/ ~CanFloat(num[inputs[i]])}
        units == declared_units(inputs, unit)
    IN
    IF Len(inputs) < 2
    THEN Failed(g, activity,
                TextLiteral("Expected at least two inputs. Found", <<Len(inputs)>>),
                "INPUT_TOO_FEW", execution_hash, body)
    ELSE IF bad # {}
    THEN LET qv == inputs[Min(bad)]
         IN IF num[qv] = None
            THEN Failed(g, activity,
                        TextLiteral("Input has no qudt:numericValue", Str(qv)),
                        "MISSING_NUMERIC_VALUE", execution_hash, body)
            ELSE Failed(g, activity,
                        TextLiteral("Input has non-numeric value",
                                    Str(qv) \o num[qv].v),
                        "NON_NUMERIC_VALUE", execution_hash, body)
    ELSE IF Cardinality(units) > 1
    THEN Failed(g, activity,
                TextLiteral("Inputs have different units",
                            join([i \in DOMAIN unit_order |-> Str(unit_order[i])])),
                "UNIT_MISMATCH", execution_hash, body)
    ELSE
    LET unit_iri == IF units # {} THEN CHOOSE u \in units : TRUE ELSE MilliM
        total == sum([i \in DOMAIN inputs |-> float(num[inputs[i]])])
        result_qv == create_deterministic_iri("sumResult", execution_hash)
        cleaned == cleanup_previous_result(g, result_qv)
        fresh == result_statements(result_qv, total, unit_iri, activity, inputs)
    IN Outcome(cleaned.g \cup fresh, "Done", "", execution_hash,
               fresh, cleaned.removed, cleaned.count)

\* ------------------------------------------------------------- the caller
\* The identifiers of the caller's workflow graph.
ActivityIris == {<<1>>, <<1, 2>>}

\* The statements about inputs the caller may assert or retract between
\* invocations: numeric values and units of the inputs, the link of the third.
CallerStatements ==
    {<<Iri(<<2>>), "qudt:numericValue", NumLiteral(1)>>,
     <<Iri(<<2>>), "qudt:numericValue", NumLiteral(2)>>,
     <<Iri(<<2>>), "qudt:unit", MilliM>>,
     <<Iri(<<3>>), "qudt:numericValue", NumLiteral(1)>>,
     <<Iri(<<3>>), "qudt:numericValue", TextLiteral("abc", <<>>)>>,
     <<Iri(<<3>>), "qudt:unit", MilliM>>,
     <<Iri(<<3>>), "qudt:unit", Unit(<<2>>)>>,
     <<Iri(<<2, 3>>), "bfo:is_input_of", Iri(<<1>>)>>,
     <<Iri(<<2, 3>>), "qudt:numericValue", NumLiteral(1)>>}

\* The graphs the caller starts with: one input; two inputs, the second with a
\* unit; and these two with a third, typed and linked, that has no value yet.
First == {<<Iri(<<2>>), "bfo:is_input_of", Iri(<<1>>)>>,
          <<Iri(<<2>>), "rdf:type", QuantityValue>>,
          <<Iri(<<2>>), "qudt:numericValue", NumLiteral(1)>>}
Second == {<<Iri(<<3>>), "bfo:is_input_of", Iri(<<1>>)>>,
           <<Iri(<<3>>), "rdf:type", QuantityValue>>,
           <<Iri(<<3>>), "qudt:numericValue", NumLiteral(1)>>,
           <<Iri(<<3>>), "qudt:unit", Unit(<<2>>)>>}
Third == {<<Iri(<<2, 3>>), "bfo:is_input_of", Iri(<<1>>)>>,
          <<Iri(<<2, 3>>), "rdf:type", QuantityValue>>}
InitialGraphs == {First, First \cup Second, First \cup Second \cup Third}

\* The identifiers the hash is applied to on its own.
HashIds == {<<1>>, <<2>>, <<1, 2>>, <<2, 1>>}
HashLists == UNION {[1..n -> HashIds] : n \in 0..MaxListLen}

VARIABLES
    g,      \* the accumulated graph: what the last invocation returned, as edited
    runs,   \* invocations of run so far
    edits,  \* statements the caller has changed so far
    last,   \* the last invocation: its input and its outcome
    twin,   \* a second invocation of run on the same input as the last one
    hargs,  \* arguments of create_execution_hash applied on its own
    hout,   \* its result, and the entity identifiers derived from it
    guard   \* cleanup_previous_result applied on its own: graph, identifier, results

vars == <<g, runs, edits, last, twin, hargs, hout, guard>>

NoOutcome == Outcome({}, "None", "", unknown, {}, {}, 0)

Invocation(gin, malformed, activity_iri, inputs, out) ==
    [gin |-> gin, malformed |-> malformed, activity |-> activity_iri,
     inputs |-> inputs, out |-> out]

NoHash == [hash |-> unknown, sumResult |-> None, errorAnn |-> None]

NoCleanup == [g |-> {}, removed |-> {}, count |-> 0]
Guarded(gr, iri, calls, first, second) ==
    [g |-> gr, iri |-> iri, calls |-> calls, first |-> first, second |-> second]
NoGuard == Guarded({}, None, 0, NoCleanup, NoCleanup)

Init ==
    /\ g \in InitialGraphs
    /\ runs = 0
    /\ edits = 0
    /\ last = Invocation({}, FALSE, <<>>, <<>>, NoOutcome)
    /\ twin = NoOutcome
    /\ hargs = [activity |-> <<1>>, inputs |-> <<>>]
    /\ hout = NoHash
    /\ guard = NoGuard

\* The invocations of run that are possible on graph gin for activity a: one
\* for each list the store can yield for the qualifying inputs, each object
\* g.value can return and each iteration order of the units set.
Invocations(gin, a, body) ==
    LET S == qualifying(gin, Iri(a))
    IN UNION {
         {Invocation(gin, FALSE, a, c[1],
                     run(gin, FALSE, a, c[1], c[2], c[3], unit_order, body)) :
            unit_order \in Orders(declared_units(c[1], c[3]))} :
         c \in Orders(S) \X value(gin, S, "qudt:numericValue")
                         \X value(gin, S, "qudt:unit")}

\* One invocation of run on the accumulated graph; the caller keeps what it
\* returns.  twin is what a second invocation on the same input returns.
Run(a) ==
    /\ runs < MaxRuns
    /\ LET possible == Invocations(g, a, BNode(runs + 1))
       IN \E first \in possible, second \in {i.out : i \in possible} :
            /\ g' = first.out.g
            /\ last' = first
            /\ twin' = second
    /\ runs' = runs + 1
    /\ UNCHANGED <<edits, hargs, hout, guard>>

\* An invocation whose input serialization does not parse.
RunMalformed(a) ==
    /\ runs < MaxRuns
    /\ LET out == run({}, TRUE, a, <<>>, <<>>, <<>>, <<>>, BNode(runs + 1))
       IN /\ g' = out.g
          /\ last' = Invocation({}, TRUE, a, <<>>, out)
          /\ twin' = out
    /\ runs' = runs + 1
    /\ UNCHANGED <<edits, hargs, hout, guard>>

\* Between invocations the caller asserts or retracts a statement about an input.
AddStatement(t) ==
    /\ edits < MaxEdits /\ runs < MaxRuns
    /\ t \notin g
    /\ g' = g \cup {t}
    /\ edits' = edits + 1
    /\ UNCHANGED <<runs, last, twin, hargs, hout, guard>>

RemoveStatement(t) ==
    /\ edits < MaxEdits /\ runs < MaxRuns
    /\ t \in g
    /\ g' = g \ {t}
    /\ edits' = edits + 1
    /\ UNCHANGED <<runs, last, twin, hargs, hout, guard>>

\* The result entities in the graph.
Results(gr) == {t[1] : t \in {u \in gr : u[1].n = "sumResult"}}

\* The caller refers to a result entity from elsewhere in its graph.
Refer(s, r) ==
    /\ edits < MaxEdits /\ runs < MaxRuns
    /\ <<s, "prov:wasDerivedFrom", r>> \notin g
    /\ g' = g \cup {<<s, "prov:wasDerivedFrom", r>>}
    /\ edits' = edits + 1
    /\ UNCHANGED <<runs, last, twin, hargs, hout, guard>>

Next ==
    \/ \E a \in ActivityIris : Run(a)
    \/ \E a \in ActivityIris : RunMalformed(a)
    \/ \E t \in CallerStatements : AddStatement(t)
    \/ \E t \in CallerStatements : RemoveStatement(t)
    \/ \E r \in Results(g) : \E s \in {Iri(<<2>>), r} : Refer(s, r)

Spec == Init /\ [][Next]_vars

\* ------------------------------------------- the Identity Deriver on its own
HashInit ==
    /\ g = {}
    /\ runs = 0
    /\ edits = 0
    /\ last = Invocation({}, FALSE, <<>>, <<>>, NoOutcome)
    /\ twin = NoOutcome
    /\ hargs \in [activity : HashIds, inputs : HashLists]
    /\ hout = NoHash
    /\ guard = NoGuard

Derive ==
    /\ hout = NoHash
    /\ LET h == create_execution_hash(hargs.activity, hargs.inputs)
       IN hout' = [hash |-> h,
                   sumResult |-> create_deterministic_iri("sumResult", h),
                   errorAnn |-> create_deterministic_iri("errorAnn", h)]
    /\ UNCHANGED <<g, runs, edits, last, twin, hargs, guard>>

HashNext == Derive

HashSpec == HashInit /\ [][HashNext]_vars

\* --------------------------------------------- the Mutation Guard on its own
\* The statements of the graphs the guard is applied to: the entity as subject,
\* as object, as both, and statements that do not mention it.
GuardEntity == create_deterministic_iri("sumResult", sha256_hex16(<<1, 2, 3>>))
GuardStatements ==
    {<<GuardEntity, "rdf:type", QuantityValue>>,
     <<GuardEntity, "prov:wasDerivedFrom", Iri(<<2>>)>>,
     <<Iri(<<3>>), "prov:wasDerivedFrom", GuardEntity>>,
     <<GuardEntity, "prov:wasDerivedFrom", GuardEntity>>,
     <<Iri(<<2>>), "rdf:type", QuantityValue>>,
     <<Iri(<<2>>), "bfo:is_input_of", Iri(<<1>>)>>}
GuardIris == {GuardEntity, Iri(<<2>>), Iri(<<4>>)}

GuardInit ==
    /\ g = {}
    /\ runs = 0
    /\ edits = 0
    /\ last = Invocation({}, FALSE, <<>>, <<>>, NoOutcome)
    /\ twin = NoOutcome
    /\ hargs = [activity |-> <<1>>, inputs |-> <<>>]
    /\ hout = NoHash
    /\ \E gr \in SUBSET GuardStatements, iri \in GuardIris :
          guard = Guarded(gr, iri, 0, NoCleanup, NoCleanup)

\* cleanup_previous_result(g, result_iri) on the drawn graph.
Cleanup ==
    /\ guard.calls = 0
    /\ guard' = [guard EXCEPT !.calls = 1,
                              !.first = cleanup_previous_result(guard.g, guard.iri)]
    /\ UNCHANGED <<g, runs, edits, last, twin, hargs, hout>>

\* The guard called again, immediately, on the graph the first call left.
CleanupAgain ==
    /\ guard.calls = 1
    /\ guard' = [guard EXCEPT !.calls = 2,
                              !.second = cleanup_previous_result(guard.first.g,
                                                                 guard.iri)]
    /\ UNCHANGED <<g, runs, edits, last, twin, hargs, hout>>

GuardNext == Cleanup \/ CleanupAgain

GuardSpec == GuardInit /\ [][GuardNext]_vars

\* ================================================================ claims
\* What the claims read of the last invocation.
Ran == runs > 0
ResultIri == create_deterministic_iri("sumResult", last.out.hash)
AnnIri == create_deterministic_iri("errorAnn", last.out.hash)
About(gr, s) == {t \in gr : t[1] = s}

\* The nodes of gr linked to activity a and typed QuantityValue, the objects
\* of their p edges, and whether each has a value and only parsable ones.
LinkedAndTyped(gr, a) ==
    {t[1] : t \in {u \in gr : /\ u[2] = "bfo:is_input_of"
                               /\ u[3] = Iri(a)
                               /\ <<u[1], "rdf:type", QuantityValue>> \in gr}}
EdgesOf(gr, Q, p) == {t[3] : t \in {u \in gr : u[1] \in Q /\ u[2] = p}}
AllParsable(gr, Q) ==
    \A q \in Q : /\ EdgesOf(gr, {q}, "qudt:numericValue") # {}
                  /\ \A x \in EdgesOf(gr, {q}, "qudt:numericValue") :
                        x.k = "literal" /\ x.n = "number"

\* C1: idempotent replacement.  In the graph a successful invocation returns,
\* the statements with the result identifier as subject are exactly the ones
\* this invocation wrote: one type, one numeric value, one unit, one
\* generated-by edge and one derived-from edge per input; nothing an earlier
\* invocation wrote for the same identifier is left.
C1_IdempotentReplacement ==
    (Ran /\ last.out.state = "Done") =>
        LET about == About(last.out.g, ResultIri)
            only(p) == Cardinality(objects(last.out.g, ResultIri, p)) = 1
        IN /\ about = last.out.written
           /\ only("rdf:type")
           /\ only("qudt:numericValue")
           /\ only("qudt:unit")
           /\ only("prov:wasGeneratedBy")
           /\ objects(last.out.g, ResultIri, "prov:wasDerivedFrom")
                = Range(last.inputs)
           /\ Cardinality(about) = 4 + Len(last.inputs)

\* A second successful invocation whose input held the numeric value of the
\* first, and whose returned graph holds another one in its place.
C1_Witness ==
    /\ runs = 2
    /\ last.out.state = "Done"
    /\ \E t \in last.gin :
          /\ t[1] = ResultIri
          /\ t[2] = "qudt:numericValue"
          /\ t \notin last.out.g

\* C2: at most one live copy of an error entity.  In the graph a failing
\* invocation returns, the annotation of its execution identity has exactly
\* one body, and its bodies carry exactly one message and at most one code,
\* whatever failing invocations of the same activity came before.
C2_OneErrorAnnotation ==
    (/\ Ran
     /\ last.out.state = "Error"
     /\ objects(last.out.g, AnnIri, "oa:hasTarget") \subseteq {Iri(last.activity)})
    => LET bodies == objects(last.out.g, AnnIri, "oa:hasBody")
       IN /\ Cardinality(bodies) = 1
          /\ Cardinality(EdgesOf(last.out.g, bodies, "rdf:value")) = 1
          /\ Cardinality(EdgesOf(last.out.g, bodies, "ex:errorCode")) <= 1

\* The permutations of a list.
Permutations(s) ==
    {[i \in DOMAIN s |-> s[f[i]]] : f \in Orders(DOMAIN s)}

\* C3: identity stability under input reordering.  Every permutation of the
\* input list gives the execution identity the given list gave, and so the
\* same entity identifier for every role prefix.
C3_OrderIndependent ==
    hout # NoHash =>
        \A p \in Permutations(hargs.inputs) :
            LET h == create_execution_hash(hargs.activity, p)
            IN /\ h = hout.hash
               /\ create_deterministic_iri("sumResult", h) = hout.sumResult
               /\ create_deterministic_iri("errorAnn", h) = hout.errorAnn

\* The hash applied to a list that is not in sorted order.
C3_Witness ==
    /\ hout # NoHash
    /\ \E i, j \in DOMAIN hargs.inputs :
          i < j /\ StrLess(hargs.inputs[j], hargs.inputs[i])

\* C4: identity uniqueness.  Any execution that differs from the given one in
\* its activity identifier or in its set of input identifiers feeds a different
\* string to the hash, and so has a different execution identity.
C4_DistinctIdentities ==
    hout # NoHash =>
        \A a \in HashIds, l \in HashLists :
            (a # hargs.activity \/ Range(l) # Range(hargs.inputs)) =>
                /\ combined(a, l) # combined(hargs.activity, hargs.inputs)
                /\ create_execution_hash(a, l) # hout.hash

\* C5: determinism.  A second invocation on the same input graph for the same
\* activity succeeds when the first does, with the same result identifier and
\* the same statements for the result entity.
C5_Deterministic ==
    (Ran /\ last.out.state = "Done") =>
        /\ twin.state = "Done"
        /\ twin.hash = last.out.hash
        /\ twin.written = last.out.written

\* The qualifying inputs of the last invocation, read from its input graph.
Q == LinkedAndTyped(last.gin, last.activity)
Codes == {"PARSE_ERROR", "INPUT_TOO_FEW", "MISSING_NUMERIC_VALUE",
          "NON_NUMERIC_VALUE", "UNIT_MISMATCH"}

\* The condition of the input that an error code reports.
CodeMatches ==
    CASE last.out.code = "PARSE_ERROR" -> last.malformed
      [] last.out.code = "INPUT_TOO_FEW" ->
            ~last.malformed /\ Cardinality(Q) < 2
      [] last.out.code = "MISSING_NUMERIC_VALUE" ->
            /\ ~last.malformed /\ Cardinality(Q) >= 2
            /\ \E q \in Q : EdgesOf(last.gin, {q}, "qudt:numericValue") = {}
      [] last.out.code = "NON_NUMERIC_VALUE" ->
            /\ ~last.malformed /\ Cardinality(Q) >= 2
            /\ \E x \in EdgesOf(last.gin, Q, "qudt:numericValue") :
                    ~(x.k = "literal" /\ x.n = "number")
      [] last.out.code = "UNIT_MISMATCH" ->
            /\ ~last.malformed /\ Cardinality(Q) >= 2
            /\ Cardinality(EdgesOf(last.gin, Q, "qudt:unit")) > 1
      [] OTHER -> FALSE

\* C6: every invocation ends in exactly one of Done and Error and returns a
\* graph.  In Error the returned graph holds an error annotation at the
\* identifier of the execution, whose body carries one of the five codes, and
\* the input has the condition that code reports.
C6_TerminalStates ==
    Ran =>
        /\ last.out.state \in {"Done", "Error"}
        /\ last.out.state = "Done" => last.out.code = ""
        /\ last.out.state = "Error" =>
            /\ last.out.code \in Codes
            /\ <<AnnIri, "rdf:type", Annotation>> \in last.out.g
            /\ \E body \in objects(last.out.g, AnnIri, "oa:hasBody") :
                  <<body, "ex:errorCode", TextLiteral(last.out.code, <<>>)>>
                      \in last.out.g
            /\ CodeMatches

\* An invocation that ended in Error on its last check, the units.
C6_Witness == Ran /\ last.out.state = "Error" /\ last.out.code = "UNIT_MISMATCH"

\* C7: outcome exclusivity.  An invocation writes statements of the result
\* entity only, or statements of the error annotation and its body only.  In
\* Error nothing is removed and no statement with the result identifier as
\* subject is added: the returned graph is the input graph plus the annotation.
C7_OutcomeExclusive ==
    Ran =>
        /\ last.out.state = "Done" =>
            /\ \A t \in last.out.written : t[1] = ResultIri
            /\ last.out.g = (last.gin \ last.out.removed) \cup last.out.written
        /\ last.out.state = "Error" =>
            /\ \A t \in last.out.written :
                  t[1] = AnnIri \/ <<AnnIri, "oa:hasBody", t[1]>> \in last.out.written
            /\ last.out.removed = {} /\ last.out.count = 0
            /\ last.out.g = last.gin \cup last.out.written
            /\ About(last.out.g, ResultIri) = About(last.gin, ResultIri)

\* A failing invocation on a graph that holds a result entity of the same
\* execution identity, written by an earlier successful invocation.
C7_Witness ==
    /\ Ran /\ last.out.state = "Error"
    /\ About(last.gin, ResultIri) # {}

\* C8: original statements are preserved.  When the input parses, in Error
\* every statement of the input graph is in the returned graph and what is
\* added is about the annotation or its body; in Done every statement of the
\* input graph that does not mention the result identifier is in the returned
\* graph and what is added has the result identifier as subject.
C8_OriginalsPreserved ==
    (Ran /\ ~last.malformed) =>
        /\ last.out.state = "Error" =>
            /\ last.gin \subseteq last.out.g
            /\ \A t \in last.out.g \ last.gin :
                  t[1] = AnnIri \/ <<AnnIri, "oa:hasBody", t[1]>> \in last.out.g
        /\ last.out.state = "Done" =>
            /\ \A t \in last.gin :
                  (t[1] # ResultIri /\ t[3] # ResultIri) => t \in last.out.g
            /\ \A t \in last.out.g \ last.gin : t[1] = ResultIri

\* A successful invocation on a graph in which another node referred to the
\* result identifier: that statement is gone, the rest is kept.
C8_Witness ==
    /\ Ran /\ last.out.state = "Done"
    /\ \E t \in last.gin : t[1] # ResultIri /\ t[3] = ResultIri /\ t \notin last.out.g

\* C9: input-count boundary.  The inputs of an invocation are the nodes linked
\* to the activity and typed QuantityValue; other linked nodes are left out
\* and cause no error.  Fewer than 2 of them gives INPUT_TOO_FEW, and only
\* that does; exactly 2, each with a value, all values parsable and at most
\* one unit declared among them, gives Done.
C9_InputCountBoundary ==
    (Ran /\ ~last.malformed) =>
        /\ Range(last.inputs) = Q
        /\ (Cardinality(Q) < 2) <=> (last.out.code = "INPUT_TOO_FEW")
        /\ (/\ Cardinality(Q) = 2
            /\ AllParsable(last.gin, Q)
            /\ Cardinality(EdgesOf(last.gin, Q, "qudt:unit")) <= 1)
           => last.out.state = "Done"

\* A successful invocation with exactly 2 qualifying inputs and a third node
\* that is linked to the activity but not typed.
C9_Witness ==
    /\ Ran /\ last.out.state = "Done" /\ Cardinality(Q) = 2
    /\ \E t \in last.gin :
          t[2] = "bfo:is_input_of" /\ t[3] = Iri(last.activity) /\ t[1] \notin Q

\* C10: unit handling.  With at least 2 qualifying inputs, each with a value
\* and all values parsable, the invocation ends with UNIT_MISMATCH exactly
\* when the unit edges of the qualifying inputs name more than one unit;
\* otherwise it ends in Done, with the one declared unit or, when none is
\* declared, MilliM as the unit of the result.
C10_UnitHandling ==
    (/\ Ran /\ ~last.malformed
     /\ Cardinality(Q) >= 2
     /\ AllParsable(last.gin, Q))
    => LET declared == EdgesOf(last.gin, Q, "qudt:unit")
       IN /\ (last.out.code = "UNIT_MISMATCH") <=> (Cardinality(declared) > 1)
          /\ Cardinality(declared) <= 1 =>
              /\ last.out.state = "Done"
              /\ objects(last.out.g, ResultIri, "qudt:unit")
                   = (IF declared = {} THEN {MilliM} ELSE declared)

\* C11: parse failure.  When the input does not parse, the returned graph is
\* one error annotation at the fixed identifier errorAnn_unknown, whatever the
\* activity: its type, its motivation and one body carrying a message and the
\* code PARSE_ERROR.  It has no has-target and no generated-by edge, and no
\* other statement is in the graph.
C11_ParseFailure ==
    (Ran /\ last.malformed) =>
        LET ann == create_deterministic_iri("errorAnn", unknown)
            bodies == objects(last.out.g, ann, "oa:hasBody")
        IN /\ last.out.state = "Error" /\ last.out.code = "PARSE_ERROR"
           /\ Cardinality(bodies) = 1
           /\ \A body \in bodies :
                 /\ body.k = "bnode"
                 /\ objects(last.out.g, body, "ex:errorCode")
                        = {TextLiteral("PARSE_ERROR", <<>>)}
                 /\ Cardinality(objects(last.out.g, body, "rdf:value")) = 1
                 /\ \A t \in last.out.g : t[1] \in {ann, body}
           /\ <<ann, "rdf:type", Annotation>> \in last.out.g
           /\ objects(last.out.g, ann, "oa:hasTarget") = {}
           /\ objects(last.out.g, ann, "prov:wasGeneratedBy") = {}
           /\ Cardinality(last.out.g) = 6

\* A parse failure for the second activity, after an invocation that returned
\* a graph with statements about inputs.
C11_Witness ==
    /\ runs = 2 /\ last.malformed /\ last.activity = <<1, 2>>
    /\ g = last.out.g

\* The sum of f over the nodes of S.
RECURSIVE SumOver(_, _)
SumOver(f, S) ==
    IF S = {} THEN 0
    ELSE LET q == CHOOSE x \in S : TRUE IN f[q].v[1] + SumOver(f, S \ {q})

\* The sums of one parsable numeric value of each qualifying input: a single
\* number when every input has one numeric-value edge.
Totals ==
    {SumOver(f, Q) :
        f \in {h \in [Q -> EdgesOf(last.gin, Q, "qudt:numericValue")] :
                 \A q \in Q : /\ <<q, "qudt:numericValue", h[q]>> \in last.gin
                               /\ h[q].k = "literal" /\ h[q].n = "number"}}

\* C12: success entity content.  After a successful invocation the statements
\* with the result identifier as subject are exactly: the QuantityValue type,
\* one numeric value that is the sum of the numeric values of all qualifying
\* inputs, one unit, the generated-by edge to the activity and a derived-from
\* edge to each qualifying input and to no other node.
C12_SuccessEntity ==
    (Ran /\ last.out.state = "Done") =>
        \E total \in Totals, u \in EdgesOf(last.gin, Q, "qudt:unit") \cup {MilliM} :
            About(last.out.g, ResultIri) =
                {<<ResultIri, "rdf:type", QuantityValue>>,
                 <<ResultIri, "qudt:numericValue", NumLiteral(total)>>,
                 <<ResultIri, "qudt:unit", u>>,
                 <<ResultIri, "prov:wasGeneratedBy", Iri(last.activity)>>}
                \cup {<<ResultIri, "prov:wasDerivedFrom", q>> : q \in Q}

\* A successful invocation over three inputs, each with one numeric value.
C12_Witness ==
    /\ Ran /\ last.out.state = "Done"
    /\ Cardinality(Q) = 3
    /\ Cardinality(Totals) = 1

\* C13: the activity node is never created or re-asserted.  No statement an
\* invocation writes, and no statement the returned graph has more than the
\* input graph, has the activity as subject; where the activity is the object,
\* the statement is a generated-by or has-target edge from the result entity
\* or the error annotation of this invocation.
C13_ActivityNotAsserted ==
    Ran =>
        \A t \in last.out.written \cup (last.out.g \ last.gin) :
            /\ t[1] # Iri(last.activity)
            /\ t[3] = Iri(last.activity) =>
                /\ t[2] \in {"prov:wasGeneratedBy", "oa:hasTarget"}
                /\ t[1] = (IF last.out.state = "Done" THEN ResultIri ELSE AnnIri)

\* A failing invocation whose annotation points at the activity, on a graph
\* that has no statement with the activity as subject.
C13_Witness ==
    /\ Ran /\ last.out.state = "Error"
    /\ <<AnnIri, "oa:hasTarget", Iri(last.activity)>> \in last.out.written
    /\ About(last.out.g, Iri(last.activity)) = {}

\* An input that has a numeric-value edge that parses.
HasParsable(q) ==
    \E x \in EdgesOf(last.gin, {q}, "qudt:numericValue") :
        x.k = "literal" /\ x.n = "number"

\* C14: first-failure ordering.  A failing invocation writes one annotation
\* with one body and one code.  INPUT_TOO_FEW depends on the number of
\* qualifying inputs alone.  MISSING_NUMERIC_VALUE and NON_NUMERIC_VALUE name
\* an input, in discovery order, that has no value or an unparsable value,
\* with every input before it having a parsable value.  UNIT_MISMATCH is
\* written only when every qualifying input has a parsable value.
C14_FirstFailure ==
    (Ran /\ last.out.state = "Error" /\ ~last.malformed) =>
        LET w == last.out.written
            msg(text, detail) ==
                \E t \in w : t[2] = "rdf:value" /\ t[3] = TextLiteral(text, detail)
        IN /\ Cardinality({t \in w : t[2] = "ex:errorCode"}) = 1
           /\ Cardinality({t \in w : t[2] = "oa:hasBody"}) = 1
           /\ Cardinality({t \in w : t[3] = Annotation}) = 1
           /\ (last.out.code = "INPUT_TOO_FEW") <=> (Cardinality(Q) < 2)
           /\ last.out.code = "MISSING_NUMERIC_VALUE" =>
                \E i \in DOMAIN last.inputs :
                    /\ EdgesOf(last.gin, {last.inputs[i]}, "qudt:numericValue") = {}
                    /\ msg("Input has no qudt:numericValue", last.inputs[i].v)
                    /\ \A j \in 1..(i - 1) : HasParsable(last.inputs[j])
           /\ last.out.code = "NON_NUMERIC_VALUE" =>
                \E i \in DOMAIN last.inputs :
                    /\ \E x \in EdgesOf(last.gin, {last.inputs[i]},
                                         "qudt:numericValue") :
                          /\ ~(x.k = "literal" /\ x.n = "number")
                          /\ msg("Input has non-numeric value",
                                 last.inputs[i].v \o x.v)
                    /\ \A j \in 1..(i - 1) : HasParsable(last.inputs[j])
           /\ last.out.code = "UNIT_MISMATCH" => \A q \in Q : HasParsable(q)

\* NON_NUMERIC_VALUE reported for one input while another qualifying input,
\* later in discovery order, has no numeric value at all.
C14_Witness ==
    /\ Ran /\ last.out.code = "NON_NUMERIC_VALUE"
    /\ \E q \in Q : EdgesOf(last.gin, {q}, "qudt:numericValue") = {}

\* C15: validation errors carry the real execution identity.  A failing
\* invocation whose graph parsed reports one of the four validation codes, and
\* its annotation is the errorAnn identifier of the execution identity of the
\* activity and the qualifying inputs, in whatever order they are listed: the
\* identity the sumResult identifier of the execution has, and not the
\* parse-failure identity.
C15_RealIdentity ==
    (Ran /\ last.out.state = "Error" /\ ~last.malformed) =>
        /\ last.out.code \in Codes \ {"PARSE_ERROR"}
        /\ \A p \in Orders(Q) :
             LET h == create_execution_hash(last.activity,
                                            [i \in DOMAIN p |-> Str(p[i])])
                 annotations == {t[1] : t \in {u \in last.out.written :
                                                    u[3] = Annotation}}
             IN /\ h # unknown
                /\ annotations = {create_deterministic_iri("errorAnn", h)}
                /\ \A a \in annotations :
                     /\ a.v = create_deterministic_iri("sumResult", h).v
                     /\ a # create_deterministic_iri("errorAnn", unknown)

\* A UNIT_MISMATCH annotation written for two or more qualifying inputs.
C15_Witness ==
    /\ Ran /\ last.out.code = "UNIT_MISMATCH" /\ Cardinality(Q) >= 2
    /\ <<AnnIri, "rdf:type", Annotation>> \in last.out.written

\* The statements of gr that mention the identifier as subject or as object.
Mentions(gr, iri) == {t \in gr : t[1] = iri \/ t[3] = iri}

\* C16: Mutation Guard exactness and idempotence.  The guard leaves exactly
\* the statements that do not have the identifier as subject or object; on an
\* identifier with no statements it leaves the graph as it was and returns
\* zero; called again immediately it changes nothing and returns zero.
C16_GuardExact ==
    /\ guard.calls >= 1 =>
        /\ guard.first.g = guard.g \ Mentions(guard.g, guard.iri)
        /\ guard.first.removed = Mentions(guard.g, guard.iri)
        /\ Mentions(guard.g, guard.iri) = {} =>
            (guard.first.g = guard.g /\ guard.first.count = 0)
    /\ guard.calls = 2 =>
        /\ guard.second.g = guard.first.g
        /\ guard.second.removed = {}
        /\ guard.second.count = 0

\* The guard called twice on a graph that has the identifier as a subject, as
\* an object, and statements that do not mention it.
C16_Witness ==
    /\ guard.calls = 2
    /\ \E t \in guard.first.removed : t[1] = guard.iri /\ t[3] # guard.iri
    /\ \E t \in guard.first.removed : t[3] = guard.iri /\ t[1] # guard.iri
    /\ guard.first.g # {}

\* C17: Mutation Guard count.  The number the guard returns is the number of
\* statements it removed from the graph, also when a statement has the
\* identifier as both its subject and its object.
C17_GuardCount ==
    guard.calls >= 1 =>
        /\ guard.first.count = Cardinality(guard.g \ guard.first.g)
        /\ guard.first.count = Cardinality(guard.first.removed)

\* C18: a run does not change the inputs of its activity.  No statement a run
\* adds uses the is-input-of predicate.  When the graph parsed, the graph the
\* run returns has the qualifying inputs of the activity that the run found,
\* the result entity is not one of them, and every invocation of the same
\* activity on the returned graph finds the same inputs and has the same
\* execution identity, result identifier and error identifier.
C18_InputsStable ==
    Ran =>
        /\ \A t \in last.out.written \cup (last.out.g \ last.gin) :
                t[2] # "bfo:is_input_of"
        /\ ~last.malformed =>
            /\ qualifying(last.out.g, Iri(last.activity)) = Q
            /\ Range(last.inputs) = Q
            /\ ResultIri \notin qualifying(last.out.g, Iri(last.activity))
            /\ \A i \in Invocations(last.out.g, last.activity, BNode(runs + 1)) :
                 /\ Range(i.inputs) = Q
                 /\ i.out.hash = last.out.hash
                 /\ create_deterministic_iri("sumResult", i.out.hash) = ResultIri
                 /\ create_deterministic_iri("errorAnn", i.out.hash) = AnnIri

\* The second of two invocations with no edit in between, replacing the result
\* entity, typed QuantityValue, that the first one wrote.
C18_Witness ==
    /\ runs = 2 /\ edits = 0 /\ last.out.state = "Done"
    /\ <<ResultIri, "rdf:type", QuantityValue>> \in last.gin
    /\ <<ResultIri, "rdf:type", QuantityValue>> \in last.out.removed
    /\ Cardinality(Q) >= 2

\* C19: earlier outcomes are cleared on the success path only, and only for
\* the result identifier.  A successful run removes the statements that
\* mention its result identifier and no others, so an error annotation of the
\* same execution stays; a failing run removes nothing, so a result entity of
\* the same execution stays.
C19_ResultAndErrorCoexist ==
    (Ran /\ ~last.malformed) =>
        /\ last.out.state = "Done" =>
            /\ last.out.removed = Mentions(last.gin, ResultIri)
            /\ last.gin \ last.out.g \subseteq Mentions(last.gin, ResultIri)
            /\ About(last.gin, AnnIri) \subseteq last.out.g
        /\ last.out.state = "Error" =>
            /\ last.out.removed = {}
            /\ last.gin \subseteq last.out.g
            /\ About(last.gin, ResultIri) \subseteq last.out.g

\* A successful run on a graph that holds the error annotation an earlier
\* failing run of the same execution wrote: the returned graph holds both.
C19_Witness ==
    /\ Ran /\ last.out.state = "Done"
    /\ <<AnnIri, "rdf:type", Annotation>> \in last.gin
    /\ <<AnnIri, "rdf:type", Annotation>> \in last.out.g
    /\ <<ResultIri, "rdf:type", QuantityValue>> \in last.out.g

\* The other direction: a failing run on a graph that holds the result entity
\* of the same execution.
C19_ErrorAfterResult ==
    /\ Ran /\ last.out.state = "Error"
    /\ <<ResultIri, "rdf:type", QuantityValue>> \in last.gin
    /\ <<ResultIri, "rdf:type", QuantityValue>> \in last.out.g
    /\ <<AnnIri, "rdf:type", Annotation>> \in last.out.g

====
